---- MODULE Spec2Model ----
(***************************************************************************)
(* Model of holidays.py: the Controller of the Google-calendar holiday     *)
(* node server (start, process_config, refresh, longPoll, discover,        *)
(* is_holiday) and its DayNode indicators.                                 *)
(*                                                                         *)
(* Python's None is the empty sequence <<>>; a present value v is <<v>>.   *)
(* A handler runs from pc = "idle" to pc = "returned"; refresh() takes one  *)
(* step per configured calendar (one event query each).                    *)
(***************************************************************************)
EXTENDS Integers, Sequences, FiniteSets, TLC

\* ---------------------------------------------------------------- bounds
MaxDay == 1
MaxPages == 2
MaxItems == 1
MaxIds == 1
MaxNames == 2
MaxEvents == 2

\* ---------------------------------------------------------------- values
None == <<>>
Some(v) == <<v>>
Val(o) == o[1]

SeqUpTo(S, n) == UNION {[1..k -> S] : k \in 0..n}

CalendarNames == {"A", "B"}
MissingName == "NoSuchCal"
Ids == 1..MaxIds

\* A calendar's IANA zone, as the number of days its local date is ahead.
TimeZoneOf(id) == (id - 1) % 2

CalendarDescriptor == {[summary |-> n, id |-> i, timeZone |-> TimeZoneOf(i)] :
                          n \in CalendarNames, i \in Ids}

\* google.oauth2 Credentials, by the three properties start() reads.
Credentials == {c \in [valid : BOOLEAN, expired : BOOLEAN, refresh_token : BOOLEAN] :
                   c.valid = ~c.expired /\ (c.valid => c.refresh_token)}
FreshCredential == [valid |-> TRUE, expired |-> FALSE, refresh_token |-> TRUE]

\* The typed configuration the host delivers.
NameLists == SeqUpTo(CalendarNames \cup {MissingName}, MaxNames)
TypedConfigs == [calendarName : {None} \cup {Some(l) : l \in NameLists},
                 token : {"", "code"}]
Configs == {None} \cup {Some(t) : t \in TypedConfigs}

\* The provider's calendar list: a chain of pages, page k naming page k+1,
\* the last page carrying no token (0).
PageChain(k) == {ch \in [1..k -> [items : SeqUpTo(CalendarDescriptor, MaxItems),
                                  nextPageToken : 0..k]] :
                    \A i \in 1..k : ch[i].nextPageToken = (IF i < k THEN i + 1 ELSE 0)}
PageChains == UNION {PageChain(k) : k \in 1..MaxPages}

\* The requests of one pagination loop that are followed: one more than the
\* longest chain has pages, so that a page requested again is seen.
RequestLimit == MaxPages + 1

\* The events the provider returns for the window [t, t + 2). A boundary is
\* date-only ('date') or timed ('dateTime'), here with the day it falls on. An
\* event lasts one day, or began the day before t and ends with day t (the end
\* is exclusive). All-day events: the transparent ones on each of these days,
\* the others on day t. Events with a timed boundary: the transparent ones
\* that start on day t.
DayOf(boundary) ==
    IF "date" \in DOMAIN boundary THEN boundary.date ELSE boundary.dateTime

Boundaries(days) == {[date |-> d] : d \in days} \cup {[dateTime |-> d] : d \in days}

EventsFor(t) ==
    {e \in [transparency : {"transparent", "opaque", "None"},
            start : Boundaries((t - 1)..(t + 1)),
            end : Boundaries((t + 1)..(t + 2))] :
        /\ DayOf(e.end) = (IF DayOf(e.start) < t THEN t + 1 ELSE DayOf(e.start) + 1)
        /\ IF "date" \in DOMAIN e.start /\ "date" \in DOMAIN e.end
           THEN e.transparency = "transparent" \/ e.start.date = t
           ELSE e.transparency = "transparent" /\ DayOf(e.start) = t}

VARIABLES
    isStarted,      \* self.isStarted
    service,        \* self.service: None or Some("calendar")
    credentials,    \* self.credentials
    tokenPickle,    \* the file token.pickle
    flow,           \* self.flow exists
    notice,         \* the 'auth' notice is shown
    config,         \* self.config
    calendars,      \* self.calendars
    calendarList,   \* self.calendarList
    nodes,          \* the addresses of the nodes registered with the host (addNode)
    docs,           \* the listing published last (add_custom_config_docs)
    publishedDocs,  \* add_custom_config_docs calls of the handler
    day,            \* the current day (UTC)
    startCalled,    \* the host has called start()
    pc,             \* where the running handler is
    stack,          \* the handlers running, outermost first
    names,          \* process_config: typedConfig.get('calendarName')
    calendarDict,   \* process_config: the local calendarList
    pages,          \* the provider's calendar list during the pass
    pageToken,      \* process_config: pageToken
    pageRequests,   \* the pages requested in the pass, in order
    idx,            \* refresh: position in self.calendars
    result,         \* refresh: the events of the last query
    errorLog,       \* LOGGER.error calls of the handler
    escaped         \* the handler an exception escaped from, or "None"

vars == <<isStarted, service, credentials, tokenPickle, flow, notice, config,
          calendars, calendarList, nodes, docs, publishedDocs, day, startCalled,
          pc, stack,
          names, calendarDict, pages, pageToken, pageRequests, idx, result,
          errorLog, escaped>>

authVars == <<service, credentials, tokenPickle, flow, notice>>
localVars == <<names, calendarDict, pages, pageToken, pageRequests>>
hostVars == <<calendarList, nodes, docs, publishedDocs>>

\* ---------------------------------------------------------------- DayNode
DayNode(address, name) ==
    [address |-> address, name |-> name, futureState |-> FALSE,
     currentDate |-> None, ST |-> 0]

setDate(node, date) ==
    IF node.currentDate # Some(date) THEN [node EXCEPT !.currentDate = Some(date)]
    ELSE node

setFutureState(node) == [node EXCEPT !.futureState = TRUE]

setState(node, state) == [node EXCEPT !.ST = IF state THEN 1 ELSE 0]

\* DayNode.refresh that forgets line 230.
NodeRefresh_KeepPending(node) ==
    IF node.futureState THEN setState(node, TRUE) ELSE setState(node, FALSE)

\* DayNode.refresh flipping ST on a pending flag instead of setting it.
NodeRefresh_Flip(node) ==
    IF node.futureState THEN [setState(node, node.ST = 0) EXCEPT !.futureState = FALSE]
    ELSE setState(node, FALSE)

NodeRefresh(node) ==
    IF node.futureState THEN [setState(node, TRUE) EXCEPT !.futureState = FALSE]
    ELSE setState(node, FALSE)

CalendarEntry(calendar, todayNode, tomorrowNode) ==
    [calendar |-> calendar, todayNode |-> todayNode, tomorrowNode |-> tomorrowNode]

\* ---------------------------------------------------------------- refresh
\* is_holiday without the test of the end boundary.
is_holiday_NoEnd(event) ==
    /\ event.transparency = "transparent"
    /\ "date" \in DOMAIN event.start

is_holiday(event) ==
    /\ event.transparency = "transparent"
    /\ "date" \in DOMAIN event.start
    /\ "date" \in DOMAIN event.end

\* Midnight of now() in the calendar's zone, as a day number.
TodayDate(calendar) == day + calendar.timeZone

\* Lines 115-118: the indicator a holiday event marks.
MarkEvent(entry, event, todayDate) ==
    IF event.start.date = todayDate
    THEN [entry EXCEPT !.todayNode = setFutureState(@)]
    ELSE [entry EXCEPT !.tomorrowNode = setFutureState(@)]

\* The loop over result.get('items', []), lines 110-118.
RECURSIVE ProcessEvents(_, _, _)
ProcessEvents(entry, events, todayDate) ==
    IF events = <<>> THEN entry
    ELSE LET event == Head(events)
         IN ProcessEvents(IF is_holiday(event) THEN MarkEvent(entry, event, todayDate)
                          ELSE entry,
                          Tail(events), todayDate)

\* Lines 105-106.
SetDates(entry) ==
    [entry EXCEPT !.todayNode = setDate(@, TodayDate(entry.calendar)),
                  !.tomorrowNode = setDate(@, TodayDate(entry.calendar) + 1)]

\* Lines 119-120.
Commit(entry) ==
    [entry EXCEPT !.todayNode = NodeRefresh(@), !.tomorrowNode = NodeRefresh(@)]

\* The outermost handler returns; the host has yet to take its next trigger.
Return ==
    /\ pc' = "returned"
    /\ stack' = <<>>
    /\ idx' = 0
    /\ result' = <<>>

\* An exception unwinds the running handlers stk; only longPoll catches it.
Raise(stk) ==
    /\ Return
    /\ IF stk[1] = "longPoll"
       THEN errorLog' = Append(errorLog, "Error refreshing calendars") /\ escaped' = "None"
       ELSE errorLog' = errorLog /\ escaped' = stk[1]

\* refresh() is entered with the handlers stk running: lines 94-98.
EnterRefresh(stk) ==
    /\ result' = <<>>
    /\ IF isStarted'
       THEN pc' = "refresh" /\ stack' = stk /\ idx' = 1
       ELSE pc' = "returned" /\ stack' = <<>> /\ idx' = 0

Init ==
    /\ isStarted = FALSE
    /\ service = None
    /\ credentials = None
    /\ tokenPickle \in {None} \cup {Some(c) : c \in Credentials}
    /\ flow = FALSE
    /\ notice = FALSE
    /\ config = None
    /\ calendars = <<>>
    /\ calendarList = [kind |-> "list", keys |-> {}]
    /\ nodes = {}
    /\ docs = None
    /\ publishedDocs = <<>>
    /\ day = 0
    /\ startCalled = FALSE
    /\ pc = "idle"
    /\ stack = <<>>
    /\ names = None
    /\ calendarDict = <<>>
    /\ pages = <<>>
    /\ pageToken = 0
    /\ pageRequests = <<>>
    /\ idx = 0
    /\ result = <<>>
    /\ errorLog = <<>>
    /\ escaped = "None"

\* ---------------------------------------------------------------- the configuration pass
\* Lines 160-162: the page's items go into the dict.
RECURSIVE AddItems(_, _)
AddItems(dict, items) ==
    IF items = <<>> THEN dict
    ELSE AddItems((Head(items).summary :> Head(items)) @@ dict, Tail(items))

\* Line 163, inside the for loop: the token is read once per item.
NextToken(token, list) ==
    IF list.items # <<>> THEN list.nextPageToken ELSE token

\* One turn of the while loop, lines 158-165: the page the token names is
\* requested and read. run is the loop's state and the requests made so far.
FirstRun == [status |-> "paging", dict |-> <<>>, token |-> 0, requests |-> <<>>]

PageOf(token) == IF token = 0 THEN 1 ELSE token

PageStep(chain, run) ==
    LET list == chain[PageOf(run.token)]
        nextToken == NextToken(run.token, list)
    IN [status |-> IF nextToken = 0 THEN "done" ELSE "paging",
        dict |-> AddItems(run.dict, list.items),
        token |-> nextToken,
        requests |-> Append(run.requests, PageOf(run.token))]

\* The whole loop. The failAt-th request raises (0: none does); a loop that
\* has made RequestLimit requests and goes on is followed no further.
RECURSIVE Paginate(_, _, _)
Paginate(chain, run, failAt) ==
    IF run.status = "done" THEN run
    ELSE IF Len(run.requests) = RequestLimit THEN [run EXCEPT !.status = "looping"]
    ELSE IF Len(run.requests) + 1 = failAt
         THEN [run EXCEPT !.status = "raised",
                          !.requests = Append(@, PageOf(run.token))]
    ELSE Paginate(chain, PageStep(chain, run), failAt)

\* The name loop giving up at the first name the dict does not hold.
RECURSIVE Bind_StopAtMissing(_, _, _)
Bind_StopAtMissing(list, dict, acc) ==
    IF list = <<>> THEN acc
    ELSE LET calendarName == Head(list)
             calendarIndex == Len(acc.calendars)
         IN IF calendarName \notin DOMAIN dict
            THEN [acc EXCEPT !.errors = @ + 1]
            ELSE LET calendar == dict[calendarName]
                     entry == CalendarEntry(calendar,
                                  DayNode(<<"today", calendarIndex>>,
                                          <<calendar.summary, "Today">>),
                                  DayNode(<<"tmrow", calendarIndex>>,
                                          <<calendar.summary, "Tomorrow">>))
                 IN Bind_StopAtMissing(Tail(list), dict,
                         [acc EXCEPT !.calendars = Append(@, entry)])

\* Lines 170-187: one CalendarEntry per name found in the dict.
RECURSIVE Bind(_, _, _)
Bind(list, dict, acc) ==
    IF list = <<>> THEN acc
    ELSE LET calendarName == Head(list)
             calendarIndex == Len(acc.calendars)
         IN IF calendarName \notin DOMAIN dict
            THEN Bind(Tail(list), dict, [acc EXCEPT !.errors = @ + 1])
            ELSE LET calendar == dict[calendarName]
                     entry == CalendarEntry(calendar,
                                  DayNode(<<"today", calendarIndex>>,
                                          <<calendar.summary, "Today">>),
                                  DayNode(<<"tmrow", calendarIndex>>,
                                          <<calendar.summary, "Tomorrow">>))
                 IN Bind(Tail(list), dict,
                         [acc EXCEPT !.calendars = Append(@, entry)])

\* Controller.addNode for the two nodes of every entry (lines 184-185).
RECURSIVE addNode(_, _)
addNode(registered, entries) ==
    IF entries = <<>> THEN registered
    ELSE addNode(registered \cup {Head(entries).todayNode.address,
                                  Head(entries).tomorrowNode.address},
                 Tail(entries))

\* Line 189 taking the names for changed in every pass.
KeysChanged_Always(keys, remembered) == TRUE

\* Line 189: the dict's keys against what was remembered (at first the list []).
KeysChanged(keys, remembered) ==
    remembered.kind = "list" \/ keys # remembered.keys

\* Lines 167-195 once the directory is complete: bind the names, register the
\* nodes, publish the listing if the names of the directory changed.
BindAndPublish(list, dict) ==
    /\ LET bound == Bind(IF list = None THEN <<>> ELSE Val(list), dict,
                         [calendars |-> <<>>, errors |-> 0])
       IN /\ calendars' = bound.calendars
          /\ nodes' = addNode(nodes, bound.calendars)
          /\ errorLog' = [i \in 1..bound.errors |-> "Cannot find configured calendar name"]
    /\ IF KeysChanged(DOMAIN dict, calendarList)
       THEN /\ calendarList' = [kind |-> "keys", keys |-> DOMAIN dict]
            /\ docs' = Some(DOMAIN dict)
            /\ publishedDocs' = Append(publishedDocs, DOMAIN dict)
       ELSE UNCHANGED <<calendarList, docs, publishedDocs>>

\* The pass with line 154 placed after the pagination loop.
FetchFailed_ListKept(stk) ==
    /\ UNCHANGED calendars
    /\ escaped' = stk[1]
    /\ UNCHANGED hostVars

\* A request of the pagination loop raises: line 154 has emptied the list, the
\* exception leaves process_config and its callers, lines 167-197 do not run.
FetchFailed(stk) ==
    /\ calendars' = <<>>
    /\ escaped' = stk[1]
    /\ UNCHANGED hostVars

\* Lines 153-197 of process_config, run by the handlers stk: the list is
\* emptied, the directory is read page by page, the names are bound, refresh()
\* is called. The provider's chain and the request that fails are its choice.
ConfigPass(typedConfig, stk) ==
    \E chain \in PageChains, failAt \in 0..RequestLimit :
       LET run == Paginate(chain, FirstRun, failAt)
       IN CASE run.status = "done" ->
                 /\ BindAndPublish(typedConfig.calendarName, run.dict)
                 /\ escaped' = "None"
                 /\ EnterRefresh(stk)
            [] run.status = "raised" ->
                 /\ FetchFailed(stk)
                 /\ errorLog' = <<>>
                 /\ Return
            [] run.status = "looping" ->
                 /\ calendars' = <<>>
                 /\ errorLog' = <<>>
                 /\ escaped' = "None"
                 /\ pc' = "looping"
                 /\ stack' = stk
                 /\ idx' = 0
                 /\ result' = <<>>
                 /\ UNCHANGED hostVars

\* ---------------------------------------------------------------- start
\* credentials.refresh(Request()) succeeded.
Refreshed(c) == [c EXCEPT !.valid = TRUE, !.expired = FALSE]

\* start() is the only reader of self.config (lines 79-80) and the host calls
\* it once: from there on the model keeps that self.config is set, not what
\* it holds.
Unread == Some([calendarName |-> None, token |-> "unread"])
Retained(cfg) == IF cfg = None THEN None ELSE Some(Unread)

\* Lines 76-82: the service is opened (or build() raises), then the configuration
\* stored before start() ran is applied and refresh() called.
StartOpenService ==
    \/ /\ service' = Some("calendar")
       /\ isStarted' = TRUE
       /\ IF config # None /\ Val(config) # None
          THEN /\ ConfigPass(Val(Val(config)), <<"start", "process_config">>)
               /\ config' = Retained(config)
          ELSE /\ config' = None
               /\ errorLog' = <<>>
               /\ escaped' = "None"
               /\ EnterRefresh(<<"start">>)
               /\ UNCHANGED <<calendars, hostVars>>
    \/ /\ errorLog' = <<>>
       /\ escaped' = "start"
       /\ Return
       /\ config' = Retained(config)
       /\ UNCHANGED <<service, isStarted, calendars, hostVars>>

Start ==
    /\ pc = "idle"
    /\ ~startCalled
    /\ startCalled' = TRUE
    /\ UNCHANGED <<tokenPickle, day, localVars>>
    /\ LET loaded == IF tokenPickle # None THEN tokenPickle ELSE credentials
       IN IF loaded = None \/ ~Val(loaded).valid
          THEN IF loaded # None /\ Val(loaded).expired /\ Val(loaded).refresh_token
               THEN \/ /\ credentials' = Some(Refreshed(Val(loaded)))
                       /\ UNCHANGED <<flow, notice>>
                       /\ StartOpenService
                    \/ /\ credentials' = loaded
                       /\ errorLog' = <<>>
                       /\ escaped' = "start"
                       /\ Return
                       /\ config' = Retained(config)
                       /\ UNCHANGED <<service, isStarted, flow, notice, calendars,
                                      hostVars>>
               ELSE /\ credentials' = loaded
                    /\ flow' = TRUE
                    /\ notice' = TRUE
                    /\ isStarted' = TRUE
                    /\ errorLog' = <<>>
                    /\ escaped' = "None"
                    /\ Return
                    /\ config' = Retained(config)
                    /\ UNCHANGED <<service, calendars, hostVars>>
          ELSE /\ credentials' = loaded
               /\ UNCHANGED <<flow, notice>>
               /\ StartOpenService

\* ---------------------------------------------------------------- triggers
longPoll ==
    /\ pc = "idle"
    /\ UNCHANGED <<isStarted, authVars, config, calendars, hostVars, day,
                   startCalled, localVars, errorLog, escaped>>
    /\ EnterRefresh(<<"longPoll">>)

discover ==
    /\ pc = "idle"
    /\ UNCHANGED <<isStarted, authVars, config, calendars, hostVars, day,
                   startCalled, localVars, errorLog, escaped>>
    /\ EnterRefresh(<<"discover">>)

\* One calendar of refresh(), lines 99-120: the dates, the query, the events,
\* the commit; or the query raises.
RefreshEntry ==
    /\ pc = "refresh"
    /\ idx <= Len(calendars)
    /\ UNCHANGED <<isStarted, authVars, config, hostVars, day, startCalled,
                   localVars>>
    /\ LET entry == SetDates(calendars[idx])
           todayDate == TodayDate(entry.calendar)
       IN \/ /\ service # None
             /\ \E events \in SeqUpTo(EventsFor(todayDate), MaxEvents) :
                   /\ result' = events
                   /\ calendars' = [calendars EXCEPT ![idx] =
                                       Commit(ProcessEvents(entry, events, todayDate))]
             /\ pc' = "committed"
             /\ UNCHANGED <<idx, stack, errorLog, escaped>>
          \/ /\ calendars' = [calendars EXCEPT ![idx] = entry]
             /\ Raise(stack)

\* The for loop of refresh() goes on to the next calendar.
RefreshNext ==
    /\ pc = "committed"
    /\ pc' = "refresh"
    /\ idx' = idx + 1
    /\ result' = <<>>
    /\ UNCHANGED <<isStarted, authVars, config, calendars, hostVars, day,
                   startCalled, stack, localVars, errorLog, escaped>>

\* refresh() returns to its caller: the host, or start() after process_config
\* (lines 81-82).
RefreshReturn ==
    /\ pc = "refresh"
    /\ idx > Len(calendars)
    /\ UNCHANGED <<isStarted, authVars, calendars, hostVars, day, startCalled,
                   localVars, errorLog, escaped>>
    /\ IF stack = <<"start", "process_config">>
       THEN /\ config' = None
            /\ EnterRefresh(<<"start">>)
       ELSE /\ Return
            /\ UNCHANGED config

\* ---------------------------------------------------------------- process_config
TokenNotSet(typedConfig) == typedConfig.token = ""

\* Lines 142-151: the outcomes of the try block, by the call that raises.
ExchangeOutcomes == {"ok", "fetch_token", "pickle", "openService"}

\* The try block going on to the calendar list without having opened the service.
AuthExchange_ServiceNotOpened(outcome) ==
    /\ flow' = flow
    /\ tokenPickle' = IF outcome \in {"ok", "openService"} THEN Some(FreshCredential)
                      ELSE tokenPickle
    /\ credentials' = IF outcome \in {"ok", "openService"} THEN Some(FreshCredential)
                      ELSE credentials
    /\ service' = service
    /\ notice' = IF outcome = "ok" THEN FALSE ELSE notice

\* The try block with removeNotice() moved before openService().
AuthExchange_NoticeFirst(outcome) ==
    /\ flow' = flow
    /\ tokenPickle' = IF outcome \in {"ok", "openService"} THEN Some(FreshCredential)
                      ELSE tokenPickle
    /\ credentials' = IF outcome \in {"ok", "openService"} THEN Some(FreshCredential)
                      ELSE credentials
    /\ service' = IF outcome = "ok" THEN Some("calendar") ELSE service
    /\ notice' = IF outcome \in {"ok", "openService"} THEN FALSE ELSE notice

\* open() of token.pickle is the step of the dump that fails: the file is left
\* as it was.
AuthExchange(outcome) ==
    /\ flow' = flow
    /\ tokenPickle' = IF outcome \in {"ok", "openService"} THEN Some(FreshCredential)
                      ELSE tokenPickle
    /\ credentials' = IF outcome \in {"ok", "openService"} THEN Some(FreshCredential)
                      ELSE credentials
    /\ service' = IF outcome = "ok" THEN Some("calendar") ELSE service
    /\ notice' = IF outcome = "ok" THEN FALSE ELSE notice

\* The except clause of lines 149-151: log, return.
ExchangeFailed(typedConfig) ==
    /\ errorLog' = <<"Error getting credentials">>
    /\ escaped' = "None"
    /\ Return
    /\ UNCHANGED <<calendars, hostVars>>

\* A return before line 153.
EarlyReturn ==
    /\ errorLog' = <<>>
    /\ escaped' = "None"
    /\ Return
    /\ UNCHANGED <<authVars, calendars, hostVars>>

\* process_config called by the host (poly.onConfig), lines 127-197.
process_config ==
    /\ pc = "idle"
    /\ UNCHANGED <<isStarted, day, startCalled, localVars>>
    /\ IF ~isStarted
       THEN \E cfg \in Configs :
               /\ config' = IF startCalled THEN Retained(Some(cfg)) ELSE Some(cfg)
               /\ EarlyReturn
       ELSE /\ UNCHANGED config
            /\ \/ EarlyReturn  \* typedCustomData is None
               \/ IF service = None
                  THEN \E typedConfig \in TypedConfigs :
                          IF TokenNotSet(typedConfig)
                          THEN EarlyReturn
                          ELSE \E outcome \in ExchangeOutcomes :
                                  /\ AuthExchange(outcome)
                                  /\ IF outcome = "ok"
                                     THEN ConfigPass(typedConfig, <<"process_config">>)
                                     ELSE ExchangeFailed(typedConfig)
                  \* the token is not read once the service is open
                  ELSE \E typedConfig \in {t \in TypedConfigs : t.token = ""} :
                          /\ UNCHANGED authVars
                          /\ ConfigPass(typedConfig, <<"process_config">>)

\* ---------------------------------------------------------------- the host
\* The host takes back control: the handler's log and outcome are gone.
HostReady ==
    /\ pc = "returned"
    /\ pc' = "idle"
    /\ errorLog' = <<>>
    /\ publishedDocs' = <<>>
    /\ escaped' = "None"
    /\ UNCHANGED <<isStarted, authVars, config, calendars, calendarList, nodes,
                   docs, day, startCalled, stack, localVars, idx, result>>

NextDay ==
    /\ pc = "idle"
    /\ day < MaxDay
    /\ day' = day + 1
    /\ UNCHANGED <<isStarted, authVars, config, calendars, hostVars, startCalled,
                   pc, stack, localVars, idx, result, errorLog, escaped>>

\* ---------------------------------------------------------------- specification
Next ==
    \/ Start
    \/ process_config
    \/ longPoll
    \/ discover
    \/ RefreshEntry
    \/ RefreshNext
    \/ RefreshReturn
    \/ HostReady
    \/ NextDay

Spec == Init /\ [][Next]_vars

\* self.calendarList and the listing the host shows when a pass begins: nothing
\* yet, or the names of the directory of an earlier pass (lines 189-195).
Remembered ==
    {[calendarList |-> [kind |-> "list", keys |-> {}], docs |-> None]}
    \cup {[calendarList |-> [kind |-> "keys", keys |-> K], docs |-> Some(K)] :
             K \in SUBSET CalendarNames}


\* ---------------------------------------------------------------- the pass on given inputs
\* Lines 153-195 turn by turn, on a provider chain and a configured name list
\* drawn at the start: a controller that has started and opened the service
\* is at line 158.
InitDirectory ==
    /\ isStarted = TRUE
    /\ service = Some("calendar")
    /\ credentials = Some(FreshCredential)
    /\ tokenPickle = Some(FreshCredential)
    /\ flow = FALSE
    /\ notice = FALSE
    /\ config = None
    /\ calendars = <<>>
    /\ \E r \in Remembered : calendarList = r.calendarList /\ docs = r.docs
    /\ nodes = {}
    /\ publishedDocs = <<>>
    /\ day = 0
    /\ startCalled = TRUE
    /\ pc = "paging"
    /\ stack = <<"process_config">>
    /\ names \in {None} \cup {Some(l) : l \in NameLists}
    /\ pages \in PageChains
    /\ calendarDict = FirstRun.dict
    /\ pageToken = FirstRun.token
    /\ pageRequests = FirstRun.requests
    /\ idx = 0
    /\ result = <<>>
    /\ errorLog = <<>>
    /\ escaped = "None"

\* One turn of the while loop (lines 158-165), or its request raises.
ListPage ==
    /\ pc = "paging"
    /\ Len(pageRequests) < RequestLimit
    /\ UNCHANGED <<isStarted, authVars, config, calendars, hostVars, day,
                   startCalled, stack, names, pages, idx, result, errorLog>>
    /\ \/ LET run == PageStep(pages, [status |-> "paging", dict |-> calendarDict,
                                      token |-> pageToken, requests |-> pageRequests])
          IN /\ calendarDict' = run.dict
             /\ pageToken' = run.token
             /\ pageRequests' = run.requests
             /\ pc' = IF run.status = "done" THEN "binding" ELSE "paging"
             /\ UNCHANGED escaped
       \/ /\ pageRequests' = Append(pageRequests, PageOf(pageToken))
          /\ pc' = "raised"
          /\ escaped' = stack[1]
          /\ UNCHANGED <<calendarDict, pageToken>>

\* Lines 167-195 on the directory the loop has built.
BindNames ==
    /\ pc = "binding"
    /\ pc' = "bound"
    /\ BindAndPublish(names, calendarDict)
    /\ UNCHANGED <<isStarted, authVars, config, day, startCalled, stack,
                   localVars, idx, result, escaped>>

NextDirectory ==
    \/ ListPage
    \/ BindNames

SpecDirectory == InitDirectory /\ [][NextDirectory]_vars

\* ---------------------------------------------------------------- properties
\* What the specification calls a holiday: a transparent event whose start and
\* end are both date-only.
DateOnly(boundary) == DOMAIN boundary = {"date"}
Qualifies(event) ==
    event.transparency = "transparent" /\ DateOnly(event.start) /\ DateOnly(event.end)

\* The event occupies day d (its end is exclusive).
OnDay(event, d) == DayOf(event.start) <= d /\ d < DayOf(event.end)

Indicators == {"todayNode", "tomorrowNode"}
AllNodes == {calendars[i][n] : i \in 1..Len(calendars), n \in Indicators}

\* No handler is between two steps of refresh().
NoRefreshRunning == pc \in {"idle", "returned"}

\* C1: an event counts as a holiday exactly when it is transparent and its start
\* and end are both date-only. Seen where the classification acts: the query of
\* one calendar leaves one of its two indicators on iff one of the returned
\* events is such an event; a transparent timed event and an opaque or
\* transparency-less all-day event switch nothing on.
C1_HolidayIffTransparentAllDay ==
    pc = "committed" =>
        LET entry == calendars[idx]
        IN (entry.todayNode.ST = 1 \/ entry.tomorrowNode.ST = 1)
              <=> (\E k \in 1..Len(result) : Qualifies(result[k]))

\* C1, its case: a transparent timed event and an opaque all-day event were
\* returned with nothing else, and both indicators are off.
C1_Witness ==
    /\ pc = "committed"
    /\ Len(result) = 2
    /\ result[1].transparency = "transparent" /\ ~DateOnly(result[1].start)
    /\ result[2].transparency = "opaque" /\ DateOnly(result[2].start)
         /\ DateOnly(result[2].end)
    /\ calendars[idx].todayNode.ST = 0
    /\ calendars[idx].tomorrowNode.ST = 0

\* C2 (as claimed): an indicator that was on after a refresh the day before is
\* off after the first refresh of the day whose query returns no holiday event
\* on the indicator's day.
C2_ResetLaw ==
    [][(pc = "refresh" /\ pc' = "committed") =>
          LET old == calendars[idx]
              new == calendars'[idx]
              t == TodayDate(old.calendar)
              NoHolidayOn(d) ==
                  \A k \in 1..Len(result') :
                     ~(Qualifies(result'[k]) /\ OnDay(result'[k], d))
          IN /\ (/\ old.todayNode.ST = 1
                 /\ old.todayNode.currentDate = Some(t - 1)
                 /\ NoHolidayOn(t)) => new.todayNode.ST = 0
             /\ (/\ old.tomorrowNode.ST = 1
                 /\ old.tomorrowNode.currentDate = Some(t)
                 /\ NoHolidayOn(t + 1)) => new.tomorrowNode.ST = 0]_vars

\* C3 (as claimed): a query that fails leaves that calendar's indicators as
\* committed, and the pass still reaches every other configured calendar: when
\* the pass is over, each calendar's indicators carry the pass's dates.
C3_FailureIsolation ==
    [][(pc = "refresh" /\ pc' = "returned") =>
          /\ \A i \in 1..Len(calendars) :
                /\ calendars'[i].todayNode.ST = calendars[i].todayNode.ST
                /\ calendars'[i].tomorrowNode.ST = calendars[i].tomorrowNode.ST
          /\ \A i \in 1..Len(calendars') :
                calendars'[i].todayNode.currentDate
                    = Some(TodayDate(calendars'[i].calendar))]_vars

RECURSIVE UnionOfPages(_, _)
UnionOfPages(chain, k) ==
    IF k = 0 THEN <<>> ELSE AddItems(UnionOfPages(chain, k - 1), chain[k].items)

SameDirectory(d, e) == DOMAIN d = DOMAIN e /\ \A n \in DOMAIN d : d[n] = e[n]

\* C5 (as claimed): when the pagination loop has ended, the directory it built
\* is the union of the entries of all the pages of the chain, pages with no
\* items included.
C5_PaginationComplete ==
    pc = "binding" => SameDirectory(calendarDict, UnionOfPages(pages, Len(pages)))

\* C6 (as claimed): the loop requests the pages one after the other, none of
\* them twice, and ends only on a page that carries no continuation token.
C6_PaginationTerminates ==
    /\ \A i \in 1..Len(pageRequests) : pageRequests[i] = i
    /\ pc = "binding" => pages[pageRequests[Len(pageRequests)]].nextPageToken = 0

\* C7 (as claimed): the indicators registered with the host are those of the
\* configuration applied last, two per calendar bound.
C7_RebuildIsFull ==
    calendars # <<>> => nodes = {node.address : node \in AllNodes}

\* C8: the names are bound in list order. A name the directory lacks adds one
\* logged error and nothing else; a name it holds adds one entry with its two
\* indicators, numbered by the entries before it; no exception is raised.
C8_MissingNameSkipped ==
    pc = "bound" =>
        LET list == IF names = None THEN <<>> ELSE Val(names)
            present == SelectSeq(list, LAMBDA n : n \in DOMAIN calendarDict)
        IN /\ Len(errorLog) = Len(list) - Len(present)
           /\ Len(calendars) = Len(present)
           /\ \A i \in 1..Len(present) :
                 /\ calendars[i].calendar = calendarDict[present[i]]
                 /\ calendars[i].todayNode.address = <<"today", i - 1>>
                 /\ calendars[i].tomorrowNode.address = <<"tmrow", i - 1>>
                 /\ {<<"today", i - 1>>, <<"tmrow", i - 1>>} \subseteq nodes
           /\ Cardinality(nodes) = 2 * Len(present)
           /\ escaped = "None"

\* C8, its case: the names [A, NoSuchCal] against a directory holding only A.
C8_Witness ==
    /\ pc = "bound"
    /\ names = Some(<<"A", MissingName>>)
    /\ DOMAIN calendarDict = {"A"}
    /\ Len(calendars) = 1
    /\ Cardinality(nodes) = 2
    /\ Len(errorLog) = 1

\* C9: while the service is not opened no calendar is configured, no event
\* query and no calendar-list request is under way, no directory has been
\* remembered or published, and no trigger of the started controller has ended
\* with an exception.
C9_NoCalendarWorkWhilePending ==
    service = None =>
        /\ calendars = <<>>
        /\ pc \notin {"committed", "looping"}
        /\ calendarList.kind = "list"
        /\ docs = None
        /\ isStarted => escaped = "None"

\* C9, its case: start() asked for consent, and discover() now runs refresh().
C9_Witness ==
    /\ service = None
    /\ isStarted
    /\ notice
    /\ pc = "refresh"
    /\ stack = <<"discover">>

\* C10 (as claimed): a failed exchange leaves the state as it was.
C10_StateUnchanged ==
    [][(pc = "idle" /\ errorLog' = <<"Error getting credentials">>) =>
          UNCHANGED <<authVars, calendars, hostVars>>]_vars

\* C10 (amended): a failed exchange leaves the service unopened, the notice
\* posted, the configured calendars and what the host holds as they were, and
\* returns without an exception; the service of a controller waiting for
\* consent is opened only by a process_config call, which stores the credential
\* it obtained and removes the notice.
C10_ExchangeFailureKeepsPending ==
    [][/\ (pc = "idle" /\ errorLog' = <<"Error getting credentials">>) =>
            /\ service = None /\ service' = None
            /\ notice /\ notice'
            /\ calendars' = calendars
            /\ UNCHANGED hostVars
            /\ pc' = "returned"
            /\ escaped' = "None"
       /\ (isStarted /\ service = None /\ service' # None) =>
            /\ pc = "idle"
            /\ flow
            /\ credentials' = Some(FreshCredential)
            /\ tokenPickle' = Some(FreshCredential)
            /\ ~notice']_vars

\* C10, its case: the exchange has failed, the controller still waits.
C10_Witness ==
    /\ pc = "returned"
    /\ errorLog = <<"Error getting credentials">>
    /\ service = None
    /\ notice
    /\ isStarted

\* C11 (as claimed): the refresh() that ends a configuration pass has dealt with
\* every indicator the pass created before the handler returns: once no handler
\* runs, each indicator the controller holds carries the date refresh() gave it.
C11_RefreshedBeforeReturn ==
    NoRefreshRunning => \A node \in AllNodes : node.currentDate # None

\* What is remembered and what the host shows go together, in every state of
\* the controller.
RememberedIsPublished ==
    [calendarList |-> calendarList, docs |-> docs] \in Remembered

\* C12: a pass publishes the listing iff the names of the directory are not the
\* names published last (none at first); what it publishes is the full set of
\* the directory's names, whatever names are configured.
C12_PublishIffNamesChanged ==
    [][(pc = "binding" /\ pc' = "bound") =>
          LET keys == DOMAIN calendarDict
          IN IF docs # Some(keys)
             THEN /\ publishedDocs' = <<keys>>
                  /\ docs' = Some(keys)
                  /\ calendarList' = [kind |-> "keys", keys |-> keys]
             ELSE /\ publishedDocs' = <<>>
                  /\ UNCHANGED <<docs, calendarList>>]_vars

\* C12, its case: a second pass over a directory with the names A and B, of
\* which one is configured, has published nothing.
C12_Witness ==
    /\ pc = "bound"
    /\ DOMAIN calendarDict = {"A", "B"}
    /\ docs = Some({"A", "B"})
    /\ publishedDocs = <<>>
    /\ Len(calendars) = 1

\* C13 (as claimed): once the service is open (after a silent refresh by
\* start() or an initial grant) the credential in token.pickle is the
\* credential in use.
C13_PersistedIsInUse ==
    service # None => tokenPickle = credentials

\* C14 (as claimed): no exception raised by the calendar-list fetch or by an
\* event query leaves longPoll, discover or process_config.
C14_NoFailureEscapes ==
    escaped \notin {"longPoll", "discover", "process_config"}

\* C15: a pass whose directory fetch raises (the exception leaves
\* process_config, or start() applying the stored configuration) leaves the
\* list of configured calendars empty, registers no node, publishes nothing
\* and remembers no names.
C15_FetchFailureIsFatal ==
    [][(/\ pc = "idle" /\ pc' = "returned"
        /\ escaped' \in {"process_config", "start"}
        /\ service' # None) =>
          /\ calendars' = <<>>
          /\ UNCHANGED <<calendarList, nodes, docs>>
          /\ publishedDocs' = <<>>]_vars

\* C15, its case: calendars were configured and a listing published; the
\* directory fetch of a later pass has raised.
C15_Witness ==
    /\ pc = "returned"
    /\ escaped = "process_config"
    /\ calendars = <<>>
    /\ Cardinality(nodes) = 4
    /\ docs = Some({"A", "B"})

\* C16 (as claimed): after the commit of a calendar its today indicator is on
\* iff a returned holiday event starts today, and its tomorrow indicator is on
\* iff a returned holiday event starts tomorrow or later.
C16_DayAssignment ==
    pc = "committed" =>
        LET entry == calendars[idx]
            t == TodayDate(entry.calendar)
            Holidays == {k \in 1..Len(result) : Qualifies(result[k])}
        IN /\ entry.todayNode.ST = 1
                <=> \E k \in Holidays : DayOf(result[k].start) = t
           /\ entry.tomorrowNode.ST = 1
                <=> \E k \in Holidays : DayOf(result[k].start) >= t + 1

\* C17: refresh is idempotent. When a calendar has been refreshed, refreshing
\* it once more on the same day with the same events returned leaves the
\* committed state, the date and the pending flag of both its indicators as
\* the first pass left them.
C17_RefreshIdempotent ==
    pc = "committed" =>
        LET first == calendars[idx]
            second == Commit(ProcessEvents(SetDates(first), result,
                                           TodayDate(first.calendar)))
        IN /\ second.todayNode = first.todayNode
           /\ second.tomorrowNode = first.tomorrowNode

\* C17, its case: a poll on the day the calendar was configured has committed
\* a holiday for today and none for tomorrow.
C17_Witness ==
    /\ pc = "committed"
    /\ stack = <<"longPoll">>
    /\ day = 0
    /\ Len(result) = 1 /\ Qualifies(result[1])
    /\ calendars[idx].todayNode.ST = 1
    /\ calendars[idx].tomorrowNode.ST = 0
    /\ calendars[idx].todayNode.currentDate = Some(TodayDate(calendars[idx].calendar))

\* C18 (as claimed), the case of an authorization completed after start(): once
\* the consent asked for by start() has been given and the service is open, a
\* configuration stored before start() has been applied and cleared, so no
\* handler is left with self.config set.
C18_StoredConfigApplied ==
    (flow /\ service # None /\ pc = "idle") => config = None

====
